---- MODULE Spec2Model ----
(***************************************************************************)
(* A model of XZBBox (src/coordinate_system/cartesian/xzbbox/xzbbox_enum.rs)*)
(* : validated construction from two f64 lengths, translation by an        *)
(* XZVector, and the lazy point iterator.                                  *)
(*                                                                         *)
(* Numbers.  i32 is modelled with IntBits bits (two's complement), so that *)
(* the neighbourhood of i32::MIN and i32::MAX is inside the model.  An f64 *)
(* length is modelled as a count of halves (h = 2 * length) or NaN, which  *)
(* gives the fractional values x.0 and x.5 on both sides of 0 and of       *)
(* i32::MAX.                                                               *)
(*                                                                         *)
(* XZBBoxRect, XZPoint and XZVector live in files that are not part of the *)
(* source at hand; their operations are modelled from the specification    *)
(* and are marked so in the model map.                                     *)
(***************************************************************************)
EXTENDS Integers, Sequences, FiniteSets

VARIABLES
    overflow_checks,  \* the build: TRUE = i32 overflow panics, FALSE = it wraps
    pc,               \* "start" | "constructed" | "live" | "iter" | "panic"
    args,             \* the (length_x, length_z) of the rect_from_xz_lengths call
    result,           \* what rect_from_xz_lengths returned
    bbox,             \* the XZBBox the caller holds
    rt_stage,         \* history: 0 none, 1 after b + v, 2 after (b + v) - v
    rt_b,             \* history: the box b before the last + v
    rt_v,             \* history: the vector v of the last + v
    iter,             \* the iterator into_iter() returned
    emitted,          \* the points next() has returned so far
    it_done           \* next() has returned None

vars == <<overflow_checks, pc, args, result, bbox, rt_stage, rt_b, rt_v,
          iter, emitted, it_done>>

-----------------------------------------------------------------------------
(* Bounds of the model *)

\* width of the modelled i32, in bits
IntBits == 3

\* lengths from -1.0 up to MaxLen + 0.5 are tried, besides those around i32::MAX
MaxLen == 1

-----------------------------------------------------------------------------
(* i32 *)

TwoPow(n) == 2 ^ n

I32_MAX == TwoPow(IntBits - 1) - 1

I32_MIN == -TwoPow(IntBits - 1)

I32 == I32_MIN..I32_MAX

\* two's complement wrap-around of a mathematical integer into i32
WrapI32(n) == ((n - I32_MIN) % TwoPow(IntBits)) + I32_MIN

OverflowsI32(n) == n < I32_MIN \/ n > I32_MAX

-----------------------------------------------------------------------------
(* f64 lengths: [nan, h] stands for NaN, or for the number h / 2 *)

F64(h) == [nan |-> FALSE, h |-> h]

NaN == [nan |-> TRUE, h |-> 0]

\* length >= 0.0 (false for NaN)
F64_ge_zero(f) == ~f.nan /\ f.h >= 0

\* length > i32::MAX as f64 (false for NaN)
F64_gt_i32max(f) == ~f.nan /\ f.h > 2 * I32_MAX

\* a plausible slip: round to nearest (half up) instead of truncating
F64_as_i32_round(f) ==
    IF f.nan THEN 0
    ELSE LET r == (f.h + 1) \div 2
         IN  IF r > I32_MAX THEN I32_MAX ELSE IF r < I32_MIN THEN I32_MIN ELSE r

\* `length as i32`: NaN gives 0, otherwise truncate toward zero and saturate
F64_as_i32(f) ==
    IF f.nan THEN 0
    ELSE LET t == IF f.h >= 0 THEN f.h \div 2 ELSE -((-f.h) \div 2)
         IN  IF t > I32_MAX THEN I32_MAX ELSE IF t < I32_MIN THEN I32_MIN ELSE t

\* the lengths tried: -1.0 .. MaxLen + 0.5, i32::MAX - 0.5 .. i32::MAX + 1.0, NaN
LenVals ==
    {F64(h) : h \in (-2..(2 * MaxLen + 1)) \cup ((2 * I32_MAX - 1)..(2 * I32_MAX + 2))}
        \cup {NaN}

-----------------------------------------------------------------------------
(* XZPoint, XZVector, XZBBoxRect *)

XZPoint_new(x, z) == [x |-> x, z |-> z]

XZVector(dx, dz) == [dx |-> dx, dz |-> dz]

NoRect == [min |-> XZPoint_new(0, 0), max |-> XZPoint_new(0, 0)]

NoBox == [tag |-> "None", r |-> NoRect]

Rect(r) == [tag |-> "Rect", r |-> r]

\* XZBBoxRect::new(min, max): fails when min exceeds max on some axis
XZBBoxRect_new(min, max) ==
    IF min.x > max.x \/ min.z > max.z
    THEN [ok |-> FALSE, r |-> NoRect]
    ELSE [ok |-> TRUE, r |-> [min |-> min, max |-> max]]

XZBBoxRect_contains(r, p) ==
    r.min.x <= p.x /\ p.x <= r.max.x /\ r.min.z <= p.z /\ p.z <= r.max.z

XZBBoxRect_total_blocks_x(r) == r.max.x - r.min.x + 1

XZBBoxRect_total_blocks_z(r) == r.max.z - r.min.z + 1

\* the product in the widened (2 * IntBits bits, unsigned) type
XZBBoxRect_total_blocks(r) ==
    (XZBBoxRect_total_blocks_x(r) * XZBBoxRect_total_blocks_z(r)) % TwoPow(2 * IntBits)

\* point + vector, point - vector: i32 arithmetic on each component
XZPoint_add(p, v) == XZPoint_new(WrapI32(p.x + v.dx), WrapI32(p.z + v.dz))

XZPoint_sub(p, v) == XZPoint_new(WrapI32(p.x - v.dx), WrapI32(p.z - v.dz))

XZPoint_add_overflows(p, v) == OverflowsI32(p.x + v.dx) \/ OverflowsI32(p.z + v.dz)

XZPoint_sub_overflows(p, v) == OverflowsI32(p.x - v.dx) \/ OverflowsI32(p.z - v.dz)

\* rect + vector, rect - vector: both corners move, nothing is validated again
XZBBoxRect_add(r, v) == [min |-> XZPoint_add(r.min, v), max |-> XZPoint_add(r.max, v)]

XZBBoxRect_sub(r, v) == [min |-> XZPoint_sub(r.min, v), max |-> XZPoint_sub(r.max, v)]

XZBBoxRect_add_overflows(r, v) ==
    XZPoint_add_overflows(r.min, v) \/ XZPoint_add_overflows(r.max, v)

XZBBoxRect_sub_overflows(r, v) ==
    XZPoint_sub_overflows(r.min, v) \/ XZPoint_sub_overflows(r.max, v)

-----------------------------------------------------------------------------
(* XZBBox::rect_from_xz_lengths *)

MSG_X_NEGATIVE == "length x should >=0 , but encountered"

MSG_Z_NEGATIVE == "length z should >=0 , but encountered"

MSG_X_TOO_LARGE == "length x too large for i32"

MSG_Z_TOO_LARGE == "length z too large for i32"

MSG_INVALID_BOUNDS == "invalid bounds"

\* Err(format!("... {value}"))
Err(msg, value) == [ok |-> FALSE, box |-> NoBox, msg |-> msg, val |-> value]

Ok(box) == [ok |-> TRUE, box |-> box, msg |-> "", val |-> F64(0)]

NoResult == [ok |-> FALSE, box |-> NoBox, msg |-> "", val |-> F64(0)]

\* Ok(Self::Rect(XZBBoxRect::new(..)?)): an error of new() is passed on
RectOrErr(min, max) ==
    LET n == XZBBoxRect_new(min, max)
    IN  IF n.ok THEN Ok(Rect(n.r)) ELSE Err(MSG_INVALID_BOUNDS, F64(0))

\* a plausible slip: the two lengths end up on the wrong axes
rect_from_xz_lengths_swapped(length_x, length_z) ==
    LET lenx_ge_0 == F64_ge_zero(length_x)
        lenz_ge_0 == F64_ge_zero(length_z)
        lenx_overflow == F64_gt_i32max(length_x)
        lenz_overflow == F64_gt_i32max(length_z)
    IN  IF ~lenx_ge_0 THEN Err(MSG_X_NEGATIVE, length_x)
        ELSE IF ~lenz_ge_0 THEN Err(MSG_Z_NEGATIVE, length_x)
        ELSE IF lenx_overflow THEN Err(MSG_X_TOO_LARGE, length_x)
        ELSE IF lenz_overflow THEN Err(MSG_Z_TOO_LARGE, length_z)
        ELSE RectOrErr(XZPoint_new(0, 0),
                       XZPoint_new(F64_as_i32(length_z), F64_as_i32(length_x)))

\* a plausible slip: lenz_overflow is computed from length_x
rect_from_xz_lengths_no_z_overflow(length_x, length_z) ==
    LET lenx_ge_0 == F64_ge_zero(length_x)
        lenz_ge_0 == F64_ge_zero(length_z)
        lenx_overflow == F64_gt_i32max(length_x)
        lenz_overflow == F64_gt_i32max(length_x)
    IN  IF ~lenx_ge_0 THEN Err(MSG_X_NEGATIVE, length_x)
        ELSE IF ~lenz_ge_0 THEN Err(MSG_Z_NEGATIVE, length_x)
        ELSE IF lenx_overflow THEN Err(MSG_X_TOO_LARGE, length_x)
        ELSE IF lenz_overflow THEN Err(MSG_Z_TOO_LARGE, length_z)
        ELSE RectOrErr(XZPoint_new(0, 0),
                       XZPoint_new(F64_as_i32(length_x), F64_as_i32(length_z)))

\* a plausible slip: both x checks come before the z checks
rect_from_xz_lengths_x_first(length_x, length_z) ==
    LET lenx_ge_0 == F64_ge_zero(length_x)
        lenz_ge_0 == F64_ge_zero(length_z)
        lenx_overflow == F64_gt_i32max(length_x)
        lenz_overflow == F64_gt_i32max(length_z)
    IN  IF ~lenx_ge_0 THEN Err(MSG_X_NEGATIVE, length_x)
        ELSE IF lenx_overflow THEN Err(MSG_X_TOO_LARGE, length_x)
        ELSE IF ~lenz_ge_0 THEN Err(MSG_Z_NEGATIVE, length_x)
        ELSE IF lenz_overflow THEN Err(MSG_Z_TOO_LARGE, length_z)
        ELSE RectOrErr(XZPoint_new(0, 0),
                       XZPoint_new(F64_as_i32(length_x), F64_as_i32(length_z)))

\* the four checks in the order of the code; the message of the negative-z
\* failure is formatted with length_x (line 28)
rect_from_xz_lengths(length_x, length_z) ==
    LET lenx_ge_0 == F64_ge_zero(length_x)
        lenz_ge_0 == F64_ge_zero(length_z)
        lenx_overflow == F64_gt_i32max(length_x)
        lenz_overflow == F64_gt_i32max(length_z)
    IN  IF ~lenx_ge_0 THEN Err(MSG_X_NEGATIVE, length_x)
        ELSE IF ~lenz_ge_0 THEN Err(MSG_Z_NEGATIVE, length_x)
        ELSE IF lenx_overflow THEN Err(MSG_X_TOO_LARGE, length_x)
        ELSE IF lenz_overflow THEN Err(MSG_Z_TOO_LARGE, length_z)
        ELSE RectOrErr(XZPoint_new(0, 0),
                       XZPoint_new(F64_as_i32(length_x), F64_as_i32(length_z)))

-----------------------------------------------------------------------------
(* XZBBox: queries *)

contains(b, xzpoint) == b.tag = "Rect" /\ XZBBoxRect_contains(b.r, xzpoint)

bounding_rect(b) == b.r

min_x(b) == bounding_rect(b).min.x

max_x(b) == bounding_rect(b).max.x

min_z(b) == bounding_rect(b).min.z

max_z(b) == bounding_rect(b).max.z

-----------------------------------------------------------------------------
(* XZBBox: + and - an XZVector *)

add(b, other) == Rect(XZBBoxRect_add(b.r, other))

\* a plausible slip: - written as a copy of +
sub_as_add(b, other) == Rect(XZBBoxRect_add(b.r, other))

sub(b, other) == Rect(XZBBoxRect_sub(b.r, other))

-----------------------------------------------------------------------------
(* XZBBox::into_iter: (min_x..=max_x).flat_map(|x| (min_z..=max_z).map(..)) *)

\* start..=end
RangeInclusive(start, end) == [start |-> start, end |-> end, exhausted |-> FALSE]

None_i32(range) == [some |-> FALSE, val |-> 0, range |-> range]

\* RangeInclusive<i32>::next: the last value sets `exhausted` and leaves
\* `start` alone, so the cursor never steps past `end`
RangeInclusive_next(range) ==
    IF range.exhausted \/ ~(range.start <= range.end)
    THEN None_i32(range)
    ELSE IF range.start < range.end
         THEN [some |-> TRUE, val |-> range.start,
               range |-> [range EXCEPT !.start = range.start + 1]]
         ELSE [some |-> TRUE, val |-> range.start,
               range |-> [range EXCEPT !.exhausted = TRUE]]

\* a plausible slip: z before x in the point
point_of_swapped(x, z) == XZPoint_new(z, x)

\* move |z| XZPoint::new(x, z)
point_of(x, z) == XZPoint_new(x, z)

into_iter(b) ==
    [outer |-> RangeInclusive(min_x(b), max_x(b)),
     front_some |-> FALSE,
     front_x |-> 0,
     inner |-> RangeInclusive(0, 0),
     min_z |-> min_z(b),
     max_z |-> max_z(b)]

RECURSIVE FlatMap_next_cursor(_)
\* a plausible slip: a hand-written cursor whose z steps with wrapping_add and
\* is compared with max_z afterwards
FlatMap_next_cursor(it) ==
    LET c == IF it.front_some THEN it
             ELSE [it EXCEPT !.front_some = TRUE, !.front_x = it.outer.start,
                             !.inner = RangeInclusive(it.min_z, it.max_z)]
    IN  IF c.front_x > c.outer.end
        THEN [some |-> FALSE, val |-> XZPoint_new(0, 0), it |-> c]
        ELSE IF c.inner.start > c.max_z
             THEN FlatMap_next_cursor(
                      [c EXCEPT !.front_x = c.front_x + 1,
                                !.inner = RangeInclusive(c.min_z, c.max_z)])
             ELSE [some |-> TRUE, val |-> point_of(c.front_x, c.inner.start),
                   it |-> [c EXCEPT !.inner.start = WrapI32(c.inner.start + 1)]]

RECURSIVE FlatMap_next(_)
\* FlatMap::next: take from the current inner range; when it is used up, take
\* the next x from the outer range and open a new inner range
FlatMap_next(it) ==
    IF it.front_some
    THEN LET r == RangeInclusive_next(it.inner)
         IN  IF r.some
             THEN [some |-> TRUE, val |-> point_of(it.front_x, r.val),
                   it |-> [it EXCEPT !.inner = r.range]]
             ELSE FlatMap_next([it EXCEPT !.front_some = FALSE, !.inner = r.range])
    ELSE LET o == RangeInclusive_next(it.outer)
         IN  IF o.some
             THEN FlatMap_next(
                      [it EXCEPT !.outer = o.range, !.front_some = TRUE,
                                 !.front_x = o.val,
                                 !.inner = RangeInclusive(it.min_z, it.max_z)])
             ELSE [some |-> FALSE, val |-> XZPoint_new(0, 0),
                   it |-> [it EXCEPT !.outer = o.range]]

NoIter == into_iter(NoBox)

-----------------------------------------------------------------------------
(* The state machine: one construction, then translations, then iteration *)

\* the vector components tried
VecVals == {I32_MIN, -1, 1, I32_MAX}

\* the vectors tried: each component alone, and two with both components
Vectors ==
    {XZVector(d, 0) : d \in VecVals} \cup {XZVector(0, d) : d \in VecVals}
        \cup {XZVector(1, -1), XZVector(I32_MAX, I32_MIN)}

NoArgs == <<F64(0), F64(0)>>

Init ==
    /\ overflow_checks \in BOOLEAN
    /\ pc = "start"
    /\ args = NoArgs
    /\ result = NoResult
    /\ bbox = NoBox
    /\ rt_stage = 0
    /\ rt_b = NoBox
    /\ rt_v = XZVector(0, 0)
    /\ iter = NoIter
    /\ emitted = <<>>
    /\ it_done = FALSE

\* XZBBox::rect_from_xz_lengths(length_x, length_z)
RectFromXZLengths(length_x, length_z) ==
    /\ pc = "start"
    /\ pc' = "constructed"
    /\ args' = <<length_x, length_z>>
    /\ result' = rect_from_xz_lengths(length_x, length_z)
    /\ UNCHANGED <<overflow_checks, bbox, rt_stage, rt_b, rt_v, iter, emitted, it_done>>

\* let obj = obj.unwrap(): the caller takes the box out of an Ok result
Unwrap ==
    /\ pc = "constructed"
    /\ result.ok
    /\ pc' = "live"
    /\ bbox' = result.box
    /\ args' = NoArgs
    /\ result' = NoResult
    /\ UNCHANGED <<overflow_checks, rt_stage, rt_b, rt_v, iter, emitted, it_done>>

\* an i32 overflow in a build with overflow checks: the thread panics
Panic ==
    /\ pc' = "panic"
    /\ bbox' = NoBox
    /\ rt_stage' = 0
    /\ rt_b' = NoBox
    /\ rt_v' = XZVector(0, 0)
    /\ UNCHANGED <<overflow_checks, args, result, iter, emitted, it_done>>

Translated_add(other) ==
    /\ bbox' = add(bbox, other)
    /\ rt_stage' = 1
    /\ rt_b' = bbox
    /\ rt_v' = other
    /\ UNCHANGED <<overflow_checks, pc, args, result, iter, emitted, it_done>>

Translated_sub(other) ==
    LET back == rt_stage = 1 /\ other = rt_v
    IN  /\ bbox' = sub(bbox, other)
        /\ rt_stage' = IF back THEN 2 ELSE 0
        /\ rt_b' = IF back THEN rt_b ELSE NoBox
        /\ rt_v' = IF back THEN rt_v ELSE XZVector(0, 0)
        /\ UNCHANGED <<overflow_checks, pc, args, result, iter, emitted, it_done>>

\* impl Add<XZVector> for XZBBox: bbox + other
Add(other) ==
    /\ pc = "live"
    /\ IF overflow_checks /\ XZBBoxRect_add_overflows(bbox.r, other)
       THEN Panic
       ELSE Translated_add(other)

\* impl AddAssign<XZVector> for XZBBox: bbox += other
AddAssign(other) ==
    /\ pc = "live"
    /\ IF overflow_checks /\ XZBBoxRect_add_overflows(bbox.r, other)
       THEN Panic
       ELSE Translated_add(other)

\* impl Sub<XZVector> for XZBBox: bbox - other
Sub(other) ==
    /\ pc = "live"
    /\ IF overflow_checks /\ XZBBoxRect_sub_overflows(bbox.r, other)
       THEN Panic
       ELSE Translated_sub(other)

\* impl SubAssign<XZVector> for XZBBox: bbox -= other
SubAssign(other) ==
    /\ pc = "live"
    /\ IF overflow_checks /\ XZBBoxRect_sub_overflows(bbox.r, other)
       THEN Panic
       ELSE Translated_sub(other)

\* bbox.into_iter(): the four bounds are captured; bbox keeps the value of the
\* box the iterator was made from
IntoIter ==
    /\ pc = "live"
    /\ pc' = "iter"
    /\ iter' = into_iter(bbox)
    /\ emitted' = <<>>
    /\ it_done' = FALSE
    /\ rt_stage' = 0
    /\ rt_b' = NoBox
    /\ rt_v' = XZVector(0, 0)
    /\ UNCHANGED <<overflow_checks, args, result, bbox>>

\* one call of next() on the iterator
IterNext ==
    /\ pc = "iter"
    /\ LET n == FlatMap_next(iter)
       IN  /\ iter' = n.it
           /\ emitted' = IF n.some THEN Append(emitted, n.val) ELSE emitted
           /\ it_done' = ~n.some
    /\ UNCHANGED <<overflow_checks, pc, args, result, bbox, rt_stage, rt_b, rt_v>>

Next ==
    \/ \E length_x \in LenVals, length_z \in LenVals : RectFromXZLengths(length_x, length_z)
    \/ Unwrap
    \/ \E other \in Vectors : Add(other)
    \/ \E other \in Vectors : AddAssign(other)
    \/ \E other \in Vectors : Sub(other)
    \/ \E other \in Vectors : SubAssign(other)
    \/ IntoIter
    \/ IterNext

Spec == Init /\ [][Next]_vars

-----------------------------------------------------------------------------
(* Vocabulary of the properties *)

\* rect_from_xz_lengths has returned and its arguments and result are at hand
Called == pc = "constructed"

length_x_arg == args[1]

length_z_arg == args[2]

\* floor of a length
Floor(f) == f.h \div 2

IsNegative(f) == ~f.nan /\ f.h < 0

ExceedsI32Max(f) == ~f.nan /\ f.h > 2 * I32_MAX

InRange(f) == ~f.nan /\ f.h >= 0 /\ f.h <= 2 * I32_MAX

\* the message of the first check, in the order 1..4, that the lengths violate
FirstViolatedCheck(lx, lz) ==
    IF ~F64_ge_zero(lx) THEN MSG_X_NEGATIVE
    ELSE IF ~F64_ge_zero(lz) THEN MSG_Z_NEGATIVE
    ELSE IF F64_gt_i32max(lx) THEN MSG_X_TOO_LARGE
    ELSE IF F64_gt_i32max(lz) THEN MSG_Z_TOO_LARGE
    ELSE ""

\* the integer points of the closed rectangle of a box
PointsOf(b) == {XZPoint_new(x, z) : x \in min_x(b)..max_x(b), z \in min_z(b)..max_z(b)}

Width(b) == max_x(b) - min_x(b) + 1

Height(b) == max_z(b) - min_z(b) + 1

NoDuplicates(seq) == \A i, j \in 1..Len(seq) : seq[i] = seq[j] => i = j

Occurrences(seq, p) == Cardinality({i \in 1..Len(seq) : seq[i] = p})

-----------------------------------------------------------------------------
(* C1 *)

\* C1: lengths lx, lz with 0 <= lx, lz <= i32::MAX (0, i32::MAX and fractional
\* values included) give Ok with min = (0, 0) and max = (floor(lx), floor(lz)).
C1_ValidLengthsGiveOriginBox ==
    (Called /\ InRange(length_x_arg) /\ InRange(length_z_arg)) =>
        /\ result.ok
        /\ result.box.tag = "Rect"
        /\ min_x(result.box) = 0
        /\ min_z(result.box) = 0
        /\ max_x(result.box) = Floor(length_x_arg)
        /\ max_z(result.box) = Floor(length_z_arg)

\* lx = i32::MAX, lz = 0.5 were accepted
C1_Witness ==
    /\ Called
    /\ length_x_arg = F64(2 * I32_MAX)
    /\ length_z_arg = F64(1)
    /\ result.ok

(* C2 *)

\* C2: when lx < 0, lz < 0, lx > i32::MAX or lz > i32::MAX, whatever the other
\* length is, the call returns an error and no box; it returns (no abort).
C2_InvalidLengthsGiveErr ==
    (/\ pc # "start"
     /\ \/ IsNegative(length_x_arg) \/ IsNegative(length_z_arg)
        \/ ExceedsI32Max(length_x_arg) \/ ExceedsI32Max(length_z_arg)) =>
        /\ pc = "constructed"
        /\ ~result.ok
        /\ result.box = NoBox
        /\ bbox = NoBox

\* lx = 0.5 is fine and lz = i32::MAX + 0.5 is too large: an error came back
C2_Witness ==
    /\ Called
    /\ length_x_arg = F64(1)
    /\ length_z_arg = F64(2 * I32_MAX + 1)
    /\ ~result.ok

(* C3 *)

\* C3: the failure reported is that of the first violated check in the order
\* x >= 0, z >= 0, x <= i32::MAX, z <= i32::MAX.
C3_FirstViolatedCheckIsReported ==
    (Called /\ ~result.ok) =>
        result.msg = FirstViolatedCheck(length_x_arg, length_z_arg)

\* lx > i32::MAX together with lz < 0 reported the negative-z failure
C3_Witness ==
    /\ Called
    /\ length_x_arg = F64(2 * I32_MAX + 2)
    /\ length_z_arg = F64(-1)
    /\ result.msg = MSG_Z_NEGATIVE

(* C4 *)

\* C4: the four failures are distinct and each carries the length whose check
\* failed: length_x for the two x failures, length_z for the two z failures.
C4_FailureCarriesOffendingLength ==
    /\ Cardinality({MSG_X_NEGATIVE, MSG_Z_NEGATIVE, MSG_X_TOO_LARGE, MSG_Z_TOO_LARGE}) = 4
    /\ (Called /\ ~result.ok) =>
           result.val = IF result.msg \in {MSG_X_NEGATIVE, MSG_X_TOO_LARGE}
                        THEN length_x_arg
                        ELSE length_z_arg

(* C5 *)

\* C5: for every box, with w = max_x - min_x + 1 and h = max_z - min_z + 1, the
\* iterator produces exactly w * h points, none twice, each one contained in
\* the box, and every point of [min_x, max_x] x [min_z, max_z] exactly once.
C5_IterationCoversBoxExactlyOnce ==
    (pc = "iter") =>
        /\ NoDuplicates(emitted)
        /\ \A i \in 1..Len(emitted) : contains(bbox, emitted[i])
        /\ it_done =>
               /\ Len(emitted) = Width(bbox) * Height(bbox)
               /\ \A p \in PointsOf(bbox) : Occurrences(emitted, p) = 1

\* the same statement for the boxes whose corners are in order
IterationCoversOrderedBoxExactlyOnce ==
    (pc = "iter" /\ min_x(bbox) <= max_x(bbox) /\ min_z(bbox) <= max_z(bbox)) =>
        C5_IterationCoversBoxExactlyOnce

(* C6 *)

\* C6: the first point is (min_x, min_z); of two consecutive points the second
\* has the same x and the next z, or the first had z = max_z and the second has
\* the next x and z = min_z; so x never decreases along the sequence.
C6_IterationIsXOuterZInner ==
    (pc = "iter") =>
        /\ Len(emitted) >= 1 => emitted[1] = XZPoint_new(min_x(bbox), min_z(bbox))
        /\ \A i \in 1..(Len(emitted) - 1) :
               LET p == emitted[i]
                   q == emitted[i + 1]
               IN  \/ q.x = p.x /\ q.z = p.z + 1
                   \/ p.z = max_z(bbox) /\ q.x = p.x + 1 /\ q.z = min_z(bbox)
        /\ \A i, j \in 1..Len(emitted) : i < j => emitted[i].x <= emitted[j].x

\* a box at least 2 x 2 that is not at the origin was iterated to the end
C6_Witness ==
    /\ pc = "iter"
    /\ it_done
    /\ Width(bbox) >= 2
    /\ Height(bbox) >= 2
    /\ min_x(bbox) # min_z(bbox)
    /\ Len(emitted) = Width(bbox) * Height(bbox)

(* C7 *)

C8_CornersStayOrdered ==
    (bbox.tag = "Rect") => (min_x(bbox) <= max_x(bbox) /\ min_z(bbox) <= max_z(bbox))

(* C9 *)

NextStepsToExhaustion ==
    (pc = "iter") =>
        IF Len(emitted) < Cardinality(PointsOf(bbox))
        THEN Len(emitted') = Len(emitted) + 1 /\ ~it_done'
        ELSE it_done' /\ emitted' = emitted

\* C10: every call of next() produces a new point until as many points as the
\* box covers (the points of its rectangle) were produced, the call after that returns None, and from then
\* on the iterator stays exhausted and produces nothing more; also when max_x
\* or max_z is i32::MAX.
C10_IterationTerminates ==
    /\ []((pc = "iter") => Len(emitted) <= Cardinality(PointsOf(bbox)))
    /\ []((pc = "iter" /\ it_done) => Len(emitted) = Cardinality(PointsOf(bbox)))
    /\ [][NextStepsToExhaustion]_vars
    /\ [][it_done => (it_done' /\ emitted' = emitted)]_vars

\* a box with max_x = max_z = i32::MAX and more than one point was iterated
\* to the end
C10_Witness ==
    /\ pc = "iter"
    /\ it_done
    /\ max_x(bbox) = I32_MAX
    /\ max_z(bbox) = I32_MAX
    /\ Len(emitted) >= 2

====
